---- MODULE Spec2Model ----
(***************************************************************************)
(* git-aura, generative engine (src/src/generative_engine.py).             *)
(*                                                                         *)
(* Floats are modelled in fixed point.  A coordinate or a velocity is an   *)
(* integer number of 1/Unit pixels; a dimensionless factor (noise value,   *)
(* cosine, radial factor, opacity, force scale) is an integer number of    *)
(* thousandths; an angle is an integer number of thousandths of a turn.    *)
(* The three IEEE non-finite values numpy's scalar arithmetic produces     *)
(* (x / 0.0 is inf or nan with a warning, never an exception) are the      *)
(* sentinels PInf, NInf and NaN, and every arithmetic step goes through    *)
(* the F-operators below, which propagate them as IEEE 754 does.           *)
(* Quotients are rounded toward zero and square roots upward, so that a    *)
(* fixed-point magnitude never exceeds the real one and a comparison of a  *)
(* magnitude with an integer threshold is exact.                           *)
(***************************************************************************)
EXTENDS Integers, Sequences, FiniteSets, TLC

\* ------------------------------------------------------------ float model

\* Position units per pixel (Vector2D.x, Vector2D.y are floats).
Unit == 10

\* Scale of the dimensionless factors.
Milli == 1000

PInf == 1500000000
NInf == -1500000000
NaN == 2000000000

Fin(a) == a # NaN /\ a # PInf /\ a # NInf

Sgn(a) == IF a > 0 THEN 1 ELSE IF a < 0 THEN -1 ELSE 0

Abs(a) == IF a < 0 THEN -a ELSE a

\* int(): truncation toward zero (b > 0).
TruncDiv(a, b) == IF a >= 0 THEN a \div b ELSE -((-a) \div b)

FNeg(a) == IF a = NaN THEN NaN ELSE -a

FAdd(a, b) ==
    IF a = NaN \/ b = NaN THEN NaN
    ELSE IF ~Fin(a) THEN (IF ~Fin(b) /\ b # a THEN NaN ELSE a)
    ELSE IF ~Fin(b) THEN b
    ELSE a + b

FSub(a, b) == FAdd(a, FNeg(b))

\* a * b / q for a scale q > 0 (the product of two fixed-point values).
FMul(a, b, q) ==
    IF a = NaN \/ b = NaN THEN NaN
    ELSE IF ~Fin(a) \/ ~Fin(b)
         THEN (IF a = 0 \/ b = 0 THEN NaN
               ELSE IF Sgn(a) * Sgn(b) > 0 THEN PInf ELSE NInf)
    ELSE TruncDiv(a * b, q)

\* a / b as a multiple of 1/q; the divisor 0 is +0.0.
FDiv(a, b, q) ==
    IF a = NaN \/ b = NaN THEN NaN
    ELSE IF ~Fin(a) THEN (IF ~Fin(b) THEN NaN
                          ELSE IF Sgn(a) * (IF b < 0 THEN -1 ELSE 1) > 0
                               THEN PInf ELSE NInf)
    ELSE IF ~Fin(b) THEN 0
    ELSE IF b = 0 THEN (IF a = 0 THEN NaN ELSE IF a > 0 THEN PInf ELSE NInf)
    ELSE Sgn(a) * Sgn(b) * ((Abs(a) * q) \div Abs(b))

RECURSIVE SqrtSearch(_, _, _)
\* least s in lo..hi with s * s >= n
SqrtSearch(n, lo, hi) ==
    IF lo >= hi THEN lo
    ELSE LET mid == (lo + hi) \div 2
         IN  IF mid * mid >= n THEN SqrtSearch(n, lo, mid)
             ELSE SqrtSearch(n, mid + 1, hi)

\* np.sqrt, rounded upward; sqrt of a negative number is nan.
FSqrt(a) ==
    IF a = NaN THEN NaN
    ELSE IF a = PInf THEN PInf
    ELSE IF a < 0 THEN NaN
    ELSE SqrtSearch(a, 0, 40000)

\* Comparisons: every comparison with nan is false.
FLt(a, b) == a # NaN /\ b # NaN /\ a < b

FGt(a, b) == a # NaN /\ b # NaN /\ a > b

FLe(a, b) == a # NaN /\ b # NaN /\ a <= b

\* np.cos and np.sin of an angle given in thousandths of a turn, in
\* thousandths, on sixteen directions.
CosTable == <<1000, 924, 707, 383, 0, -383, -707, -924,
              -1000, -924, -707, -383, 0, 383, 707, 924>>

Direction(angle) == ((angle * 16 + 500) \div 1000) % 16

Cos(angle) == CosTable[Direction(angle) + 1]

Sin(angle) == CosTable[((Direction(angle) + 12) % 16) + 1]

\* ----------------------------------------------------------------- Vector2D

Vector2D(x, y) == [x |-> x, y |-> y]

\* ----------------------------------------------------------- NoiseGenerator

\* Side of a lattice cell of the noise, in millionths of a noise unit.
NoiseCell == 250000

\* OpenSimplex(seed).noise2(X, Y), X and Y in millionths: the library's
\* noise is a fixed function of the seed and the point with values in
\* [-1, 1]; here it is constant on each lattice cell.
OpenSimplex_noise2(seed, X, Y) ==
    ((((seed % 97) * 31 + (X \div NoiseCell) * 17 + (Y \div NoiseCell) * 43) % 17) - 8) * 125

\* x, y in position units, scale in 1/100000: x * scale is in millionths.
noise2d(seed, x, y, scale) ==
    OpenSimplex_noise2(seed, (x * scale) \div Unit, (y * scale) \div Unit)

\* OpenSimplex(seed).noise3(X, Y, Z), likewise.
OpenSimplex_noise3(seed, X, Y, Z) ==
    ((((seed % 97) * 31 + (X \div NoiseCell) * 17 + (Y \div NoiseCell) * 43
        + (Z \div NoiseCell) * 59) % 17) - 8) * 125

noise3d(seed, x, y, z, scale) ==
    OpenSimplex_noise3(seed, (x * scale) \div Unit, (y * scale) \div Unit,
                       (z * scale) \div Unit)

RECURSIVE FractalLoop(_, _, _, _, _, _, _, _, _, _)
\* The loop of fractal_noise with k octaves left: <<total, max_value>>.
FractalLoop(seed, x, y, k, persistence, scale, total, amplitude, frequency, max_value) ==
    IF k <= 0 THEN <<total, max_value>>
    ELSE FractalLoop(seed, x, y, k - 1, persistence, scale,
                     total + TruncDiv(amplitude * noise2d(seed, x * frequency, y * frequency, scale), Milli),
                     TruncDiv(amplitude * persistence, Milli),
                     frequency * 2,
                     max_value + amplitude)

fractal_noise(seed, x, y, octaves, persistence, scale) ==
    LET r == FractalLoop(seed, x, y, octaves, persistence, scale, 0, Milli, 1, 0)
    IN  FDiv(r[1], r[2], Milli)

\* total / max_value of fractal_noise raises ZeroDivisionError when the loop
\* made no pass: both are then the Python floats 0.0.
fractal_noise_raises(octaves) == octaves <= 0

\* ---------------------------------------------------------- VectorFlowField

\* self.resolution
Resolution == 10

VectorFlowField(width, height, seed, chaos_factor, noise_scale) ==
    [width |-> width, height |-> height, seed |-> seed,
     chaos_factor |-> chaos_factor, noise_scale |-> noise_scale,
     resolution |-> Resolution,
     cols |-> width \div Resolution, rows |-> height \div Resolution]

\* The turbulence gate letting chaos_factor = 0.3 through.
ChaosGateInclusive(chaos_factor) == chaos_factor >= 30

\* The turbulence gate: chaos_factor (in hundredths) > 0.3.
ChaosGate(chaos_factor) == chaos_factor > 30

\* radial_factor without the halving of the distance ratio.
radial_factor_unhalved(ff, x, y) ==
    LET cx == (ff.width * Unit) \div 2
        cy == (ff.height * Unit) \div 2
        dx == FSub(x, cx)
        dy == FSub(y, cy)
        dist_from_center == FSqrt(FAdd(FMul(dx, dx, 1), FMul(dy, dy, 1)))
        max_dist == FSqrt(cx * cx + cy * cy)
    IN  FSub(Milli, FDiv(dist_from_center, max_dist, Milli))

\* radial_factor of get_force (lines 223-226), in thousandths.
radial_factor(ff, x, y) ==
    LET cx == (ff.width * Unit) \div 2
        cy == (ff.height * Unit) \div 2
        dx == FSub(x, cx)
        dy == FSub(y, cy)
        dist_from_center == FSqrt(FAdd(FMul(dx, dx, 1), FMul(dy, dy, 1)))
        max_dist == FSqrt(cx * cx + cy * cy)
    IN  FSub(Milli, FMul(FDiv(dist_from_center, max_dist, Milli), 500, Milli))

\* get_force from the base angle on, given the noise samples it drew.
ForceFrom(ff, x, y, noise_val, turbulence) ==
    LET base == noise_val
        angle == IF ChaosGate(ff.chaos_factor)
                 THEN base + TruncDiv(turbulence * ff.chaos_factor, 200)
                 ELSE base
        factor == radial_factor(ff, x, y)
    IN  Vector2D(FMul(Cos(angle), factor, Milli), FMul(Sin(angle), factor, Milli))

\* get_force at a finite point.
get_force(ff, x, y) ==
    ForceFrom(ff, x, y,
              fractal_noise(ff.seed, x, y, 3, 600, ff.noise_scale),
              IF ChaosGate(ff.chaos_factor)
              THEN noise2d(ff.seed, x * 2, y * 2, ff.noise_scale * 3)
              ELSE 0)

\* get_force_grid: a row of vectors for each row of the grid.
get_force_grid(ff) ==
    [row \in 1..ff.rows |->
        [col \in 1..ff.cols |->
            get_force(ff, (col - 1) * ff.resolution * Unit, (row - 1) * ff.resolution * Unit)]]

\* The flow field, with its noise generator, as a call of get_force or
\* get_force_grid reseeding the noise generator would leave it.
FieldAfterCallReseeded(ff) == [ff EXCEPT !.seed = @ + 1]

\* The flow field, with its noise generator, after a call of get_force or
\* get_force_grid: neither assigns an attribute (lines 187-246).
FieldAfterCall(ff) == ff

\* ------------------------------------------------------------------ Particle

Particle(position, opacity) ==
    [position |-> position, velocity |-> Vector2D(0, 0), path |-> << >>,
     opacity |-> opacity]

\* Clamp to max speed (lines 55-58).
ClampSpeed(vx, vy, max_speed) ==
    LET speed == FSqrt(FAdd(FMul(vx, vx, 1), FMul(vy, vy, 1)))
    IN  IF FGt(speed, max_speed)
        THEN Vector2D(FMul(FDiv(vx, speed, Milli), max_speed, Milli),
                      FMul(FDiv(vy, speed, Milli), max_speed, Milli))
        ELSE Vector2D(vx, vy)

\* Particle.update appending to the path after it has moved the particle.
update_appends_after(p, acceleration, max_speed) ==
    LET v == ClampSpeed(FAdd(p.velocity.x, acceleration.x),
                        FAdd(p.velocity.y, acceleration.y), max_speed)
        new_pos == Vector2D(FAdd(p.position.x, v.x), FAdd(p.position.y, v.y))
    IN  [p EXCEPT !.velocity = v,
                  !.path = Append(p.path, new_pos),
                  !.position = new_pos]

\* Particle.update
update(p, acceleration, max_speed) ==
    LET v == ClampSpeed(FAdd(p.velocity.x, acceleration.x),
                        FAdd(p.velocity.y, acceleration.y), max_speed)
        new_pos == Vector2D(FAdd(p.position.x, v.x), FAdd(p.position.y, v.y))
    IN  [p EXCEPT !.velocity = v,
                  !.path = Append(p.path, p.position),
                  !.position = new_pos]

\* ------------------------------------------------------------ ParticleSystem

\* max_speed=3.0 and margin = 10 of simulate, in pixels.
SimMaxSpeed == 3

Margin == 10

\* The x branch sending a particle that left past the high edge to x = 0.
WrapXToZero(pos, width) ==
    IF FLt(pos.x, -(Margin * Unit)) THEN Vector2D((width + Margin) * Unit, pos.y)
    ELSE IF FGt(pos.x, (width + Margin) * Unit) THEN Vector2D(0, pos.y)
    ELSE pos

\* The x branch of the edge wrap (lines 335-344).
WrapX(pos, width) ==
    IF FLt(pos.x, -(Margin * Unit)) THEN Vector2D((width + Margin) * Unit, pos.y)
    ELSE IF FGt(pos.x, (width + Margin) * Unit) THEN Vector2D(-(Margin * Unit), pos.y)
    ELSE pos

\* The y branch sending a particle that left past the low edge to
\* y = height - margin.
WrapYInside(pos, height) ==
    IF FLt(pos.y, -(Margin * Unit)) THEN Vector2D(pos.x, (height - Margin) * Unit)
    ELSE IF FGt(pos.y, (height + Margin) * Unit) THEN Vector2D(pos.x, -(Margin * Unit))
    ELSE pos

\* The y branch of the edge wrap (lines 346-355).
WrapY(pos, height) ==
    IF FLt(pos.y, -(Margin * Unit)) THEN Vector2D(pos.x, (height + Margin) * Unit)
    ELSE IF FGt(pos.y, (height + Margin) * Unit) THEN Vector2D(pos.x, -(Margin * Unit))
    ELSE pos

\* The edge wrap without its y branch.
wrap_x_only(p, width, height) ==
    [p EXCEPT !.position = WrapX(p.position, width)]

\* Wrap around edges (lines 333-355).
wrap(p, width, height) ==
    [p EXCEPT !.position = WrapY(WrapX(p.position, width), height)]

\* The force in thousandths times force_scale in thousandths, as an
\* acceleration in position units (lines 325-328).
ScaleForce(force, force_scale) ==
    Vector2D(FMul(force.x, force_scale * Unit, Milli * Milli),
             FMul(force.y, force_scale * Unit, Milli * Milli))

\* A pass of the inner loop that fades the particle as it moves it.
StepParticleFading(p, force, force_scale, width, height) ==
    [wrap(update(p, ScaleForce(force, force_scale), SimMaxSpeed * Unit), width, height)
        EXCEPT !.opacity = FMul(@, 900, Milli)]

\* One pass of the inner loop of simulate for one particle, given the force.
StepParticle(p, force, force_scale, width, height) ==
    wrap(update(p, ScaleForce(force, force_scale), SimMaxSpeed * Unit), width, height)

\* np.random: the process-wide generator, as the seed it was last given and
\* the number of draws made since.
SeedRng(seed) == [seed |-> seed, n |-> 0]

\* np.random.uniform(-5, 5) at a generator state, in position units: a
\* fixed function of the seed and the draw's index, in [-5, 5).
Uniform(r) ==
    TruncDiv((((((r.seed % 101) + 1) * (r.n + 3) * 37 + r.n * r.n * 7) % 100) - 50) * Unit, 10)

\* sqrt(i / n), in thousandths.
SqrtRatio(i, n) == SqrtSearch((i * 1000000) \div n, 0, 1000)

Min(a, b) == IF a < b THEN a ELSE b

\* golden_angle = pi * (3 - sqrt(5)), in thousandths of a turn.
GoldenAngle == 382

\* The particle of index i of num_particles (lines 284-303); r is the
\* generator state before its two draws.
SpiralParticle(i, num_particles, width, height, r) ==
    LET cx == (width * Unit) \div 2
        cy == (height * Unit) \div 2
        theta == i * GoldenAngle
        rad == TruncDiv(SqrtRatio(i, num_particles) * Min(width, height) * 35 * Unit, 100 * Milli)
        jx == Uniform(r)
        jy == Uniform([r EXCEPT !.n = @ + 1])
        x == cx + TruncDiv(rad * Cos(theta), Milli) + jx
        y == cy + TruncDiv(rad * Sin(theta), Milli) + jy
        max_r == TruncDiv(Min(width, height) * 35 * Unit, 100)
        opacity == FAdd(300, FMul(700, FSub(Milli, FDiv(rad, max_r, Milli)), Milli))
    IN  Particle(Vector2D(x, y), opacity)

\* _initialize_particles looping over range(max(1, num_particles)).
initialize_particles_at_least_one(num_particles, width, height, r) ==
    LET n == IF num_particles > 0 THEN num_particles ELSE 1
    IN  [k \in 1..n |->
            SpiralParticle(k - 1, n, width, height, [r EXCEPT !.n = @ + 2 * (k - 1)])]

\* _initialize_particles: range(num_particles) is empty for num_particles <= 0.
initialize_particles(num_particles, width, height, r) ==
    [k \in 1..num_particles |->
        SpiralParticle(k - 1, num_particles, width, height, [r EXCEPT !.n = @ + 2 * (k - 1)])]

\* The generator state after _initialize_particles.
RngAfterInit(num_particles, r) ==
    [r EXCEPT !.n = @ + 2 * (IF num_particles > 0 THEN num_particles ELSE 0)]

\* The count rounded up instead of truncated.
ParticleCountCeil(num_particles, particle_density) ==
    (num_particles * particle_density + Milli - 1) \div Milli

\* self.num_particles = int(num_particles * particle_density), the density
\* in thousandths.
ParticleCount(num_particles, particle_density) ==
    TruncDiv(num_particles * particle_density, Milli)

\* ParticleSystem.__init__
ParticleSystem(flow_field, num_particles, particle_density, r) ==
    LET n == ParticleCount(num_particles, particle_density)
    IN  [flow_field |-> flow_field,
         num_particles |-> n,
         particles |-> initialize_particles(n, flow_field.width, flow_field.height, r),
         width |-> flow_field.width,
         height |-> flow_field.height]

\* The test of line 382 keeping the paths of two points as well.
LongEnoughFromTwo(p) == Len(p.path) > 1

\* Whether get_paths_with_opacity keeps a particle (line 382).
LongEnough(p) == Len(p.path) > 2

\* get_paths_with_opacity: a (path, opacity) pair for each particle kept, in
\* the order of the particles.
get_paths_with_opacity(system) ==
    LET kept == SelectSeq(system.particles, LongEnough)
    IN  [k \in 1..Len(kept) |-> [path |-> kept[k].path, opacity |-> kept[k].opacity]]

\* ------------------------------------------------------------- AuraGenerator

\* seed % (2**31) for a seed of the 32-bit range.
Mod2p31(seed) == IF seed >= 0 THEN seed ELSE (seed + 2147483647) + 1

\* AuraGenerator.__init__: the fields of the new instance.
AuraGenerator(width, height, seed) == [width |-> width, height |-> height, seed |-> seed]

\* AuraGenerator.__init__ without its np.random.seed call.
SeedOnConstructSkipped(seed, r) == r

\* np.random.seed(seed % (2**31)) of AuraGenerator.__init__.
SeedOnConstruct(seed, r) == SeedRng(Mod2p31(seed))

\* The density mapping inverted: 300 particles at density 0, 50 at density 1.
BaseParticlesInverted(density) == TruncDiv(300 * 100 - density * 250, 100)

\* generate's parameter mapping; density and chaos_factor in hundredths.
\* base_particles = int(50 + density * 250)
BaseParticles(density) == TruncDiv(50 * 100 + density * 250, 100)

\* noise_scale = 0.005 + chaos_factor * 0.015, in 1/100000
NoiseScale(chaos_factor) == 500 + chaos_factor * 15

\* particle_density = 0.8 + density * 0.4, in thousandths
DensityMultiplier(density) == 800 + density * 4

\* force_scale without its chaos term.
ForceScaleFlat(chaos_factor) == 300

\* force_scale = 0.3 + chaos_factor * 0.4, in thousandths
ForceScale(chaos_factor) == 300 + chaos_factor * 4

\* The flow field generate builds (lines 437-443).
GenerateFlowField(g, chaos_factor) ==
    VectorFlowField(g.width, g.height, g.seed, chaos_factor, NoiseScale(chaos_factor))

\* The generator state the jitter of generate's ParticleSystem draws from.
JitterSource(g, r) == r

\* The particle system generate builds (lines 446-450).
GenerateSystem(g, density, chaos_factor, r) ==
    ParticleSystem(GenerateFlowField(g, chaos_factor), BaseParticles(density),
                   DensityMultiplier(density), JitterSource(g, r))

\* ------------------------------------------------------------------ renderer

\* A colour; its components, floats in 0-1, in 1/255000.
ColorRGB(r, g, b) == [r |-> r, g |-> g, b |-> b]

\* A hex colour string is the sequence of its characters: a hex digit is its
\* value, and '#' is Hash.
Hash == 16

RECURSIVE LStripHash(_)
\* hex_color.lstrip('#')
LStripHash(str) ==
    IF Len(str) > 0 /\ str[1] = Hash THEN LStripHash(Tail(str)) ELSE str

\* int(two hex digits, 16) / 255.0
HexPair(hi, lo) == (hi * 16 + lo) * Milli

\* ColorRGB.from_hex
from_hex(hex_color) ==
    LET h == LStripHash(hex_color)
    IN  IF Len(h) # 6 THEN ColorRGB(127500, 127500, 127500)
        ELSE ColorRGB(HexPair(h[1], h[2]), HexPair(h[3], h[4]), HexPair(h[5], h[6]))

\* int(np.clip(v * 255, 0, 255))
Channel(v) == IF v < 0 THEN 0 ELSE IF v > 255 * Milli THEN 255 ELSE v \div Milli

\* ColorRGB.to_hex
to_hex(c) ==
    << Hash, Channel(c.r) \div 16, Channel(c.r) % 16,
             Channel(c.g) \div 16, Channel(c.g) % 16,
             Channel(c.b) \div 16, Channel(c.b) % 16 >>

\* ColorRGB.blend, the weight in thousandths.
blend(c, other, weight) ==
    ColorRGB(TruncDiv(c.r * (Milli - weight) + other.r * weight, Milli),
             TruncDiv(c.g * (Milli - weight) + other.g * weight, Milli),
             TruncDiv(c.b * (Milli - weight) + other.b * weight, Milli))

lighten(c, amount) == blend(c, ColorRGB(255 * Milli, 255 * Milli, 255 * Milli), amount)

darken(c, amount) == blend(c, ColorRGB(0, 0, 0), amount)

\* ColorPaletteGenerator.DEFAULT_COLORS: "#58a6ff", "#8b5cf6", "#f97316"
DEFAULT_COLORS ==
    << << Hash, 5, 8, 10, 6, 15, 15 >>,
       << Hash, 8, 11, 5, 12, 15, 6 >>,
       << Hash, 15, 9, 7, 3, 1, 6 >> >>

\* self.languages[:3]
Top3(languages) == SubSeq(languages, 1, Min(3, Len(languages)))

RECURSIVE SumUsage(_)
\* sum(lang.get("usage_count", 1) for lang in ...)
SumUsage(languages) ==
    IF languages = << >> THEN 0
    ELSE Head(languages).usage_count + SumUsage(Tail(languages))

RECURSIVE WeightedSum(_, _)
\* The loop of calculate_base_color: the colours weighted by usage / total.
WeightedSum(languages, total) ==
    IF languages = << >> THEN ColorRGB(0, 0, 0)
    ELSE LET color == from_hex(Head(languages).color)
             usage == Head(languages).usage_count
             rest == WeightedSum(Tail(languages), total)
         IN  ColorRGB(TruncDiv(color.r * usage, total) + rest.r,
                      TruncDiv(color.g * usage, total) + rest.g,
                      TruncDiv(color.b * usage, total) + rest.b)

\* calculate_base_color without the test for an empty language list.
calculate_base_color_unguarded(languages) ==
    LET total == SumUsage(Top3(languages))
    IN  WeightedSum(Top3(languages), IF total = 0 THEN 1 ELSE total)

\* ColorPaletteGenerator.calculate_base_color
calculate_base_color(languages) ==
    IF languages = << >> THEN from_hex(DEFAULT_COLORS[1])
    ELSE LET total == SumUsage(Top3(languages))
         IN  WeightedSum(Top3(languages), IF total = 0 THEN 1 ELSE total)

\* ColorPaletteGenerator.generate_palette for num_colors >= 0.
generate_palette(languages, num_colors) ==
    LET base == calculate_base_color(languages)
        shifted == ColorRGB(TruncDiv(base.g * 700 + base.r * 300, Milli),
                            TruncDiv(base.b * 700 + base.g * 300, Milli),
                            TruncDiv(base.r * 700 + base.b * 300, Milli))
        palette == << base, lighten(base, 300), darken(base, 200) >>
                      \o (IF num_colors > 3 THEN << shifted >> ELSE << >>)
                      \o (IF num_colors > 4 THEN << lighten(shifted, 200) >> ELSE << >>)
    IN  SubSeq(palette, 1, Min(num_colors, Len(palette)))

\* SVGRenderer.path_to_svg_d: the commands of the 'd' string with their
\* coordinates, a midpoint in 1/2 position unit kept as twice its value.
path_to_svg_d(path) ==
    IF Len(path) < 2 THEN << >>
    ELSE << [cmd |-> "M", at |-> path[1]], [cmd |-> "L", at |-> path[2]] >>
         \o [k \in 1..(Len(path) - 2) |->
                [cmd |-> "Q", control |-> path[k + 1],
                 twice |-> IF k + 2 < Len(path)
                           THEN Vector2D(path[k + 2].x + path[k + 3].x,
                                         path[k + 2].y + path[k + 3].y)
                           ELSE Vector2D(2 * path[k + 2].x, 2 * path[k + 2].y)]]

\* The stroke colour of the path of index i (from 0): the palette colour
\* i % len(palette), varied by sin(i * 0.1) * 0.1.
StrokeColor(i, palette) ==
    LET color == palette[(i % Len(palette)) + 1]
        variation == TruncDiv(Sin(i * 16), 10)
    IN  darken(lighten(color, IF variation > 0 THEN variation ELSE 0),
               IF variation < 0 THEN -variation ELSE 0)

\* The path element render_paths adds for the pair of index i (from 0).
PathElement(i, pair, palette) ==
    [d |-> path_to_svg_d(pair.path),
     stroke |-> to_hex(StrokeColor(i, palette)),
     stroke_width |-> Min(TruncDiv(1500 * (500 + Len(pair.path) * 5), Milli), 3000),
     stroke_opacity |-> TruncDiv(pair.opacity * 800, Milli)]

\* Whether render_paths raises: i % len(palette) with an empty palette, at
\* the first pair whose path has at least 2 points.
render_paths_raises(paths_with_opacity, palette) ==
    /\ palette = << >>
    /\ \E i \in 1..Len(paths_with_opacity) : Len(paths_with_opacity[i].path) >= 2

\* Whether render_paths draws a pair (lines 375-376).
Drawn(pair) == Len(pair.path) >= 2

\* primary_color of render_paths (line 365).
primary_color(palette) ==
    IF palette # << >> THEN palette[1] ELSE ColorRGB(127500, 178500, 255000)

\* SVGRenderer.render_paths: the glow filter's colour and the path elements
\* of the group, each with the index of its pair.
render_paths(paths_with_opacity, palette) ==
    LET idx == SelectSeq([i \in 1..Len(paths_with_opacity) |-> i],
                         LAMBDA i : Drawn(paths_with_opacity[i]))
    IN  [glow |-> primary_color(palette),
         paths |-> [k \in 1..Len(idx) |->
                       [index |-> idx[k] - 1,
                        element |-> PathElement(idx[k] - 1, paths_with_opacity[idx[k]],
                                                palette)]]]

\* render_aura: the drawing it saves.
render_aura(paths_with_opacity, languages, animate) ==
    LET palette == generate_palette(languages, 5)
        base_color == calculate_base_color(languages)
        drawn == render_paths(paths_with_opacity, palette)
    IN  [background |-> << Hash, 0, 13, 1, 1, 1, 7 >>,
         center_glow |-> to_hex(base_color),
         glow |-> drawn.glow,
         paths |-> drawn.paths,
         animated |-> animate]

\* --------------------------------------------------------------- SVGRenderer

\* self.dwg = None: no drawing.  A drawing always holds its background.
NoDrawing == [filename |-> "", elements |-> << >>, defs |-> << >>]

\* SVGRenderer.__init__
SVGRenderer(width, height, background_color) ==
    [width |-> width, height |-> height, background_color |-> background_color,
     dwg |-> NoDrawing]

\* create_drawing: a new drawing holding the background rectangle.
create_drawing(r, filename) ==
    [r EXCEPT !.dwg = [filename |-> filename,
                       elements |-> << [tag |-> "rect", fill |-> r.background_color] >>,
                       defs |-> << >>]]

\* The test every drawing operation begins with, left out.
NotInitializedUnchecked(r) == FALSE

\* if self.dwg is None: the test every drawing operation begins with.
NotInitialized(r) == r.dwg = NoDrawing

\* The message of the ValueError raised on that test.
NotInitializedError == "ValueError: Drawing not initialized"

\* add_glow_filter past its test: a filter added to the defs.
add_glow_filter(r, filter_id, color) ==
    [r EXCEPT !.dwg.defs = Append(@, [tag |-> "filter", id |-> filter_id,
                                      color |-> color])]

\* add_gradient past its test: a gradient added to the defs.
add_gradient(r, gradient_id, colors, gradient_type) ==
    [r EXCEPT !.dwg.defs =
        Append(@, [tag |-> IF gradient_type = "radial" THEN "radialGradient"
                           ELSE "linearGradient",
                   id |-> gradient_id,
                   stops |-> [i \in 1..Len(colors) |-> to_hex(colors[i])]])]

\* render_paths past its test, up to the loop: the glow filter is added.
render_paths_filter(r, paths_with_opacity, palette) ==
    add_glow_filter(r, "aura-glow", primary_color(palette))

\* render_paths past its test, when the loop ends: the group of path
\* elements is added after the filter.
render_paths_group(r, paths_with_opacity, palette) ==
    [render_paths_filter(r, paths_with_opacity, palette) EXCEPT !.dwg.elements =
        Append(@, [tag |-> "g", id |-> "aura-paths",
                   paths |-> render_paths(paths_with_opacity, palette).paths])]

\* add_center_glow past its test: a gradient and the circle filled with it.
add_center_glow(r, color) ==
    [r EXCEPT !.dwg.defs = Append(@, [tag |-> "radialGradient",
                                      id |-> "center-glow-gradient",
                                      stops |-> << to_hex(color), to_hex(color),
                                                   to_hex(color) >>]),
              !.dwg.elements = Append(@, [tag |-> "circle",
                                          fill |-> "url(#center-glow-gradient)"])]

\* add_animation past its test: the style is added to the defs.
add_animation(r) ==
    [r EXCEPT !.dwg.defs = Append(@, [tag |-> "style"])]

\* save past its test: a filename given replaces the drawing's.
save(r, filename) ==
    IF filename # "" THEN [r EXCEPT !.dwg.filename = filename] ELSE r

\* -------------------------------------------------------------------- bounds

MaxGens == 2
MaxRuns == 2
MaxSteps == 3
MaxCalls == 2
MaxBase == 2
MaxSimSteps == 4
MaxDirect == 3
MaxElems == 4

\* (width, height, seed) of the generators constructed.
GenConfigs == { <<0, 0, 7>>, <<20, 20, -1>> }

\* (density, chaos_factor, simulation_steps) of the generate calls, density
\* and chaos_factor in hundredths.
GenArgs == { <<0, 20, MaxSteps>>, <<100, 50, 0>>, <<-10, 20, MaxSteps>>, <<0, 130, 1>> }

\* States np.random may be in when the program starts.
InitRngSeeds == {3, 11}

\* Noise values the library may return at a point that is not finite.
NonFiniteNoise == {0, 125}

\* --------------------------------------------------------------------- state

VARIABLES
    rng,        \* np.random's process-wide state
    lib,        \* what the installed noise library does at a point that is
                \* not finite: "unknown" until the first such call
    gens,       \* the AuraGenerator instances, in construction order
    justBuilt,  \* index of the instance the previous operation constructed, or 0
    pc,         \* "idle", "generate" (simulate within generate), "simulate"
    cur,        \* the running generate call: instance, arguments, independence
    ps,         \* the ParticleSystem
    built,      \* the arguments ps was constructed with
    sim,        \* simulate's arguments and loop position
    updates,    \* per particle, the number of passes of the loop made on it
    moved,      \* the last pass: the particle's index, the particle as the
                \* pass found it, the acceleration, and the particle as
                \* update left it, before the edge wrap
    out,        \* the path list last returned
    raised,     \* whether the last operation ended with an exception
    calls,      \* simulate calls made on ps
    lastOp,     \* the operation that ended last
    log,        \* the generate calls that ended
    field,      \* the VectorFlowField (with its NoiseGenerator) used directly
    ret,        \* the last direct call of a function: its name, its
                \* arguments, whether it raised and the value it returned
    hist,       \* the get_force calls made on field: point and vector returned
    stepStart,  \* the particles and pass counts as the current step of
                \* simulate found them
    renderer,   \* the SVGRenderer
    files       \* the names of the files written

vars == <<rng, lib, gens, justBuilt, pc, cur, ps, built, sim, updates, moved, out,
          raised, calls, lastOp, log, field, ret, hist, stepStart, renderer, files>>

\* What the operations on generators and particle systems never touch.
direct == <<field, ret, hist, stepStart, renderer, files>>

NoFlowField == VectorFlowField(0, 0, 0, 0, 0)

NoSystem ==
    [flow_field |-> NoFlowField, num_particles |-> 0, particles |-> << >>,
     width |-> 0, height |-> 0]

NoSim == [steps |-> 0, force_scale |-> 0, step |-> 0, idx |-> 1]

NoCall == [gen |-> 0, density |-> 0, chaos_factor |-> 0, steps |-> 0, fresh |-> FALSE]

NoMove ==
    [k |-> 0, p |-> Particle(Vector2D(0, 0), 0), from |-> Particle(Vector2D(0, 0), 0),
     acceleration |-> Vector2D(0, 0)]

\* The pass on particle k: the particle as the pass found it, the
\* acceleration update was given, and the particle as update left it.
PassRecord(k, p, acceleration) ==
    [k |-> k, p |-> update(p, acceleration, SimMaxSpeed * Unit), from |-> p,
     acceleration |-> acceleration]

NoBuild == [num_particles |-> 0, particle_density |-> 0]

NoStep == [particles |-> << >>, updates |-> << >>, force_scale |-> 0]

NoReturn == [op |-> "none", args |-> << >>, raised |-> FALSE, value |-> 0]

\* No direct call was made.
NoDirect ==
    /\ field = NoFlowField
    /\ ret = NoReturn
    /\ hist = << >>
    /\ stepStart = NoStep
    /\ renderer = SVGRenderer(0, 0, << >>)
    /\ files = {}

Init ==
    /\ rng \in {SeedRng(s) : s \in InitRngSeeds}
    /\ lib = "unknown"
    /\ gens = << >>
    /\ justBuilt = 0
    /\ pc = "idle"
    /\ cur = NoCall
    /\ ps = NoSystem
    /\ built = NoBuild
    /\ sim = NoSim
    /\ updates = << >>
    /\ moved = NoMove
    /\ out = << >>
    /\ raised = FALSE
    /\ calls = 0
    /\ lastOp = "start"
    /\ log = << >>
    /\ NoDirect

\* AuraGenerator(width, height, seed)
Construct(width, height, seed) ==
    /\ UNCHANGED direct
    /\ pc = "idle"
    /\ Len(gens) < MaxGens
    /\ gens' = Append(gens, AuraGenerator(width, height, seed))
    /\ rng' = SeedOnConstruct(seed, rng)
    /\ justBuilt' = Len(gens) + 1
    /\ raised' = FALSE
    /\ lastOp' = "construct"
    /\ UNCHANGED <<lib, pc, cur, ps, built, sim, updates, moved, out, calls, log>>

\* generate(density, chaos_factor, simulation_steps) on instance k, up to the
\* call of simulate (lines 430-452).
GenerateBegin(k, density, chaos_factor, steps) ==
    /\ UNCHANGED direct
    /\ pc = "idle"
    /\ Len(log) < MaxRuns
    /\ k \in 1..Len(gens)
    /\ LET system == GenerateSystem(gens[k], density, chaos_factor, rng)
       IN  /\ ps' = system
           /\ rng' = RngAfterInit(system.num_particles, rng)
           /\ updates' = [i \in 1..Len(system.particles) |-> 0]
    /\ built' = [num_particles |-> BaseParticles(density),
                 particle_density |-> DensityMultiplier(density)]
    /\ sim' = [steps |-> steps, force_scale |-> ForceScale(chaos_factor),
               step |-> 0, idx |-> 1]
    /\ cur' = [gen |-> k, density |-> density, chaos_factor |-> chaos_factor,
               steps |-> steps, fresh |-> (justBuilt = k)]
    /\ pc' = "generate"
    /\ justBuilt' = 0
    /\ raised' = FALSE
    /\ calls' = 1
    /\ moved' = NoMove
    /\ UNCHANGED <<lib, gens, out, lastOp, log>>

\* Whether simulate's loops have run out.
LoopDone == sim.step >= sim.steps \/ Len(ps.particles) = 0

\* The loop position after the pass on particle sim.idx.
NextPosition ==
    IF sim.idx >= Len(ps.particles)
    THEN [sim EXCEPT !.step = @ + 1, !.idx = 1]
    ELSE [sim EXCEPT !.idx = @ + 1]

\* The pass on particle sim.idx with the given force.
Advance(force) ==
    /\ UNCHANGED direct
    /\ ps' = [ps EXCEPT !.particles[sim.idx] =
                 StepParticle(@, force, sim.force_scale, ps.width, ps.height)]
    /\ moved' = PassRecord(sim.idx, ps.particles[sim.idx],
                            ScaleForce(force, sim.force_scale))
    /\ updates' = [updates EXCEPT ![sim.idx] = @ + 1]
    /\ sim' = NextPosition
    /\ UNCHANGED <<rng, gens, justBuilt, pc, cur, built, out, raised, calls, lastOp, log>>

\* The entry of log for the generate call that ends.
LogEntry(failed, paths) ==
    [gen |-> cur.gen, width |-> gens[cur.gen].width, height |-> gens[cur.gen].height,
     seed |-> gens[cur.gen].seed, density |-> cur.density,
     chaos_factor |-> cur.chaos_factor, steps |-> cur.steps, fresh |-> cur.fresh,
     count |-> Len(ps.particles), raised |-> failed, out |-> paths]

\* generate's flow field and particle system are locals: they are gone when
\* it returns or an exception leaves it.
DropLocals ==
    /\ ps' = NoSystem
    /\ built' = NoBuild
    /\ sim' = NoSim
    /\ updates' = << >>
    /\ moved' = NoMove
    /\ cur' = NoCall

\* The noise library raises on a point that is not finite: the exception
\* leaves simulate, and generate too when generate is the caller.
NoiseRaises ==
    /\ UNCHANGED direct
    /\ raised' = TRUE
    /\ pc' = "idle"
    /\ IF pc = "generate"
       THEN /\ log' = Append(log, LogEntry(TRUE, << >>))
            /\ lastOp' = "generate"
            /\ DropLocals
       ELSE /\ lastOp' = "simulate"
            /\ UNCHANGED <<log, ps, built, sim, updates, moved, cur>>
    /\ UNCHANGED <<rng, gens, justBuilt, out, calls>>

\* One pass of simulate's inner loop (lines 317-355).  At a point that is not
\* finite the library either raises or returns some value, and which of the
\* two is a property of the installed library.
SimulateParticle ==
    /\ pc \in {"generate", "simulate"}
    /\ ~LoopDone
    /\ LET p == ps.particles[sim.idx]
       IN  IF Fin(p.position.x) /\ Fin(p.position.y)
           THEN /\ Advance(get_force(ps.flow_field, p.position.x, p.position.y))
                /\ UNCHANGED lib
           ELSE \/ /\ lib \in {"unknown", "returns"}
                   /\ lib' = "returns"
                   /\ \E n \in NonFiniteNoise :
                         Advance(ForceFrom(ps.flow_field, p.position.x, p.position.y, n, n))
                \/ /\ lib \in {"unknown", "raises"}
                   /\ lib' = "raises"
                   /\ NoiseRaises

\* simulate returns to generate, which returns get_paths_with_opacity()
\* (lines 452-457).
GenerateReturn ==
    /\ UNCHANGED direct
    /\ pc = "generate"
    /\ LoopDone
    /\ out' = get_paths_with_opacity(ps)
    /\ log' = Append(log, LogEntry(FALSE, get_paths_with_opacity(ps)))
    /\ pc' = "idle"
    /\ lastOp' = "generate"
    /\ DropLocals
    /\ UNCHANGED <<rng, lib, gens, justBuilt, raised, calls>>

Next ==
    \/ \E c \in GenConfigs : Construct(c[1], c[2], c[3])
    \/ \E k \in 1..MaxGens, a \in GenArgs : GenerateBegin(k, a[1], a[2], a[3])
    \/ SimulateParticle
    \/ GenerateReturn

Spec == Init /\ [][Next]_vars

\* ------------------------------------------- a ParticleSystem used directly

\* The flow fields of the directly constructed systems.
FlowFields ==
    { VectorFlowField(d[1], d[2], s, c, NoiseScale(c)) :
        d \in { <<0, 0>>, <<1, 1>>, <<20, 20>> }, s \in {7, 12}, c \in {20, 50} }

\* particle_density, in thousandths.
Densities == {500, 1000, 1500}

\* force_scale, in thousandths.
ForceScales == {500, 20000}

\* ParticleSystem(flow_field, num_particles, particle_density) constructed
\* when np.random is in state r.
InitPS ==
    /\ \E r \in {SeedRng(s) : s \in InitRngSeeds}, ff \in FlowFields,
          n \in 0..MaxBase, d \in Densities :
          /\ ps = ParticleSystem(ff, n, d, r)
          /\ built = [num_particles |-> n, particle_density |-> d]
          /\ rng = RngAfterInit(ParticleCount(n, d), r)
          /\ updates = [i \in 1..ParticleCount(n, d) |-> 0]
    /\ lib = "unknown"
    /\ gens = << >>
    /\ justBuilt = 0
    /\ pc = "idle"
    /\ cur = NoCall
    /\ sim = NoSim
    /\ moved = NoMove
    /\ out = << >>
    /\ raised = FALSE
    /\ calls = 0
    /\ lastOp = "construct"
    /\ log = << >>
    /\ NoDirect

\* simulate(steps, force_scale) is called.
SimulateBegin(steps, force_scale) ==
    /\ UNCHANGED direct
    /\ pc = "idle"
    /\ calls < MaxCalls
    /\ sim' = [steps |-> steps, force_scale |-> force_scale, step |-> 0, idx |-> 1]
    /\ pc' = "simulate"
    /\ calls' = calls + 1
    /\ raised' = FALSE
    /\ UNCHANGED <<rng, lib, gens, justBuilt, cur, ps, built, updates, moved, out, lastOp, log>>

\* simulate returns self.particles (line 357).
SimulateReturn ==
    /\ UNCHANGED direct
    /\ pc = "simulate"
    /\ LoopDone
    /\ pc' = "idle"
    /\ lastOp' = "simulate"
    /\ UNCHANGED <<rng, lib, gens, justBuilt, cur, ps, built, sim, updates, moved, out,
                   raised, calls, log>>

\* get_paths_with_opacity() is called.
GetPaths ==
    /\ UNCHANGED direct
    /\ pc = "idle"
    /\ out' = get_paths_with_opacity(ps)
    /\ raised' = FALSE
    /\ lastOp' = "get_paths"
    /\ UNCHANGED <<rng, lib, gens, justBuilt, pc, cur, ps, built, sim, updates, moved,
                   calls, log>>

NextPS ==
    \/ \E steps \in 0..MaxSimSteps, f \in ForceScales : SimulateBegin(steps, f)
    \/ SimulateParticle
    \/ SimulateReturn
    \/ GetPaths

SpecPS == InitPS /\ [][NextPS]_vars

\* --------------------------------------- one generate call, a step at a time

\* (width, height, seed) of the generator, and (density, chaos_factor,
\* simulation_steps) of the generate calls made on it.
RunConfigs == { <<800, 800, 42>> }

RunArgs == { <<50, 20, 150>>, <<3, 20, 1>>, <<0, 50, 0>>, <<100, 20, 1>> }

\* The pass on particle i sampling the flow field at the position of the
\* particle after it in the list.
SampledAtNext(system, i) == system.particles[(i % Len(system.particles)) + 1].position

\* The point at which the pass on particle i samples the flow field
\* (lines 319-322): the particle's own position.
SampledAt(system, i) == system.particles[i].position

\* flow_field.get_force at a position; n is what the noise library returns
\* at a point that is not finite.
FieldForce(ff, pos, n) ==
    IF Fin(pos.x) /\ Fin(pos.y)
    THEN get_force(ff, pos.x, pos.y)
    ELSE ForceFrom(ff, pos.x, pos.y, n, n)

\* The pass of simulate's inner loop on particle i (lines 318-355).
PassOn(system, i, force_scale, n) ==
    [system EXCEPT !.particles[i] =
        StepParticle(@, FieldForce(system.flow_field, SampledAt(system, i), n),
                     force_scale, system.width, system.height)]

RECURSIVE PassRange(_, _, _, _, _)
\* The inner loop of simulate on particles lo..hi, in the order of the list.
\* The range is halved, and the first half is evaluated before the second is
\* entered, which keeps the evaluation shallow.
PassRange(system, lo, hi, force_scale, n) ==
    IF lo > hi THEN system
    ELSE IF lo = hi THEN PassOn(system, lo, force_scale, n)
    ELSE LET mid == (lo + hi) \div 2
             first == PassRange(system, lo, mid, force_scale, n)
         IN  IF Len(first.particles) = Len(system.particles)
             THEN PassRange(first, mid + 1, hi, force_scale, n)
             ELSE first

\* One step of simulate's outer loop: the pass on every particle, in order.
simulate_step(system, force_scale, n) ==
    PassRange(system, 1, Len(system.particles), force_scale, n)

\* Whether every particle is at a finite position.
AllFinite ==
    \A i \in 1..Len(ps.particles) :
        Fin(ps.particles[i].position.x) /\ Fin(ps.particles[i].position.y)

\* One step of simulate's outer loop, made with n as the library's value at
\* points that are not finite.
StepWith(n) ==
    /\ ps' = simulate_step(ps, sim.force_scale, n)
    /\ updates' = [i \in 1..Len(updates) |-> updates[i] + 1]
    /\ sim' = [sim EXCEPT !.step = @ + 1]
    /\ moved' = NoMove
    /\ UNCHANGED <<rng, gens, justBuilt, pc, cur, built, out, raised, calls, lastOp, log>>
    /\ UNCHANGED direct

\* AuraGenerator(width, height, seed) has been constructed.
InitRun ==
    /\ \E c \in RunConfigs, s \in InitRngSeeds :
          /\ gens = << AuraGenerator(c[1], c[2], c[3]) >>
          /\ rng = SeedOnConstruct(c[3], SeedRng(s))
    /\ lib = "unknown"
    /\ justBuilt = 1
    /\ pc = "idle"
    /\ cur = NoCall
    /\ ps = NoSystem
    /\ built = NoBuild
    /\ sim = NoSim
    /\ updates = << >>
    /\ moved = NoMove
    /\ out = << >>
    /\ raised = FALSE
    /\ calls = 0
    /\ lastOp = "construct"
    /\ log = << >>
    /\ NoDirect

\* One step of simulate within generate: a pass on every particle.
SimulateStep ==
    /\ pc = "generate"
    /\ ~LoopDone
    /\ IF AllFinite
       THEN StepWith(0) /\ UNCHANGED lib
       ELSE \/ /\ lib \in {"unknown", "returns"}
               /\ lib' = "returns"
               /\ \E n \in NonFiniteNoise : StepWith(n)
            \/ /\ lib \in {"unknown", "raises"}
               /\ lib' = "raises"
               /\ NoiseRaises

NextRun ==
    \/ \E a \in RunArgs : GenerateBegin(1, a[1], a[2], a[3])
    \/ SimulateStep
    \/ GenerateReturn

SpecRun == InitRun /\ [][NextRun]_vars

\* ------------------------- a VectorFlowField and its noise generator used directly

\* The flow fields used directly, as generate builds them.
DirectFields ==
    { VectorFlowField(20, 20, 7, 20, NoiseScale(20)),
      VectorFlowField(20, 20, 12, 50, NoiseScale(50)),
      VectorFlowField(20, 20, 7, 30, NoiseScale(30)),
      VectorFlowField(40, 30, 42, 20, NoiseScale(20)) }

\* Points (x, y), in position units.
NoisePoints == { <<0, 0>>, <<4000, 4000>>, <<-100, 8100>> }

\* scale, in 1/100000.
NoiseScales == {0, 800}

\* (x, y, octaves, persistence, scale) of the fractal_noise calls, the
\* persistence in thousandths.
FractalArgs ==
    { <<4000, 4000, 0, 500, 800>>, <<4000, 4000, 1, 500, 800>>,
      <<4000, 4000, 3, 600, 800>>, <<-100, 8100, 4, 500, 800>>,
      <<4000, 4000, 2, -500, 800>>, <<-100, 8100, 2, -500, 2400>>,
      <<0, 0, 3, 1000, 0>> }

\* Points (x, y), in pixels, at which get_force is called.
ForcePoints == { <<-10, -10>>, <<0, 0>>, <<10, 10>>, <<20, 30>>, <<50, 15>> }

\* The state of everything but the direct calls.
engine == <<rng, lib, gens, justBuilt, pc, cur, ps, built, sim, updates, moved, out,
            calls, log, stepStart>>

\* VectorFlowField(width, height, seed, chaos_factor, noise_scale) has been
\* constructed, and with it its NoiseGenerator(seed).
InitField ==
    /\ field \in DirectFields
    /\ ret = NoReturn
    /\ hist = << >>
    /\ stepStart = NoStep
    /\ renderer = SVGRenderer(0, 0, << >>)
    /\ files = {}
    /\ rng \in {SeedRng(s) : s \in InitRngSeeds}
    /\ lib = "unknown"
    /\ gens = << >>
    /\ justBuilt = 0
    /\ pc = "idle"
    /\ cur = NoCall
    /\ ps = NoSystem
    /\ built = NoBuild
    /\ sim = NoSim
    /\ updates = << >>
    /\ moved = NoMove
    /\ out = << >>
    /\ raised = FALSE
    /\ calls = 0
    /\ lastOp = "construct"
    /\ log = << >>

\* The direct call op(args) returned value.
Returned(op, args, value) ==
    /\ ret' = [op |-> op, args |-> args, raised |-> FALSE, value |-> value]
    /\ raised' = FALSE
    /\ lastOp' = op

\* The direct call op(args) raised.
Raised(op, args) ==
    /\ ret' = [op |-> op, args |-> args, raised |-> TRUE, value |-> 0]
    /\ raised' = TRUE
    /\ lastOp' = op

\* field.noise_gen.noise2d(x, y, scale)
Noise2d(x, y, scale) ==
    /\ Returned("noise2d", <<x, y, scale>>, noise2d(field.seed, x, y, scale))
    /\ UNCHANGED <<field, hist>>
    /\ UNCHANGED engine
    /\ UNCHANGED <<renderer, files>>

\* field.noise_gen.noise3d(x, y, z, scale)
Noise3d(x, y, z, scale) ==
    /\ Returned("noise3d", <<x, y, z, scale>>, noise3d(field.seed, x, y, z, scale))
    /\ UNCHANGED <<field, hist>>
    /\ UNCHANGED engine
    /\ UNCHANGED <<renderer, files>>

\* field.noise_gen.fractal_noise(x, y, octaves, persistence, scale)
FractalNoise(x, y, octaves, persistence, scale) ==
    /\ IF fractal_noise_raises(octaves)
       THEN Raised("fractal_noise", <<x, y, octaves, persistence, scale>>)
       ELSE Returned("fractal_noise", <<x, y, octaves, persistence, scale>>,
                     fractal_noise(field.seed, x, y, octaves, persistence, scale))
    /\ UNCHANGED <<field, hist>>
    /\ UNCHANGED engine
    /\ UNCHANGED <<renderer, files>>

\* field.get_force(x, y), x and y in pixels.
GetForce(x, y) ==
    /\ Len(hist) < MaxDirect
    /\ Returned("get_force", <<x, y>>, get_force(field, x * Unit, y * Unit))
    /\ hist' = Append(hist, [x |-> x, y |-> y,
                             force |-> get_force(field, x * Unit, y * Unit)])
    /\ field' = FieldAfterCall(field)
    /\ UNCHANGED engine
    /\ UNCHANGED <<renderer, files>>

\* field.get_force_grid()
GetForceGrid ==
    /\ Len(hist) < MaxDirect
    /\ Returned("get_force_grid", << >>, get_force_grid(field))
    /\ hist' = Append(hist, [x |-> 0, y |-> 0, force |-> get_force(field, 0, 0)])
    /\ field' = FieldAfterCall(field)
    /\ UNCHANGED engine
    /\ UNCHANGED <<renderer, files>>

NextField ==
    \/ \E pt \in NoisePoints, scale \in NoiseScales : Noise2d(pt[1], pt[2], scale)
    \/ \E pt \in NoisePoints, scale \in NoiseScales : Noise3d(pt[1], pt[2], pt[1], scale)
    \/ \E a \in FractalArgs : FractalNoise(a[1], a[2], a[3], a[4], a[5])
    \/ \E pt \in ForcePoints : GetForce(pt[1], pt[2])
    \/ GetForceGrid

SpecField == InitField /\ [][NextField]_vars

\* ------------------------- simulate, the passes of a step taken in any order

\* The step of simulate under way: the one stepStart describes while a
\* particle is still to be passed, a new one otherwise.
CurrentStep ==
    IF \/ Len(stepStart.updates) # Len(updates)
       \/ \A j \in 1..Len(updates) : updates[j] > stepStart.updates[j]
    THEN [particles |-> ps.particles, updates |-> updates, force_scale |-> sim.force_scale]
    ELSE stepStart

\* Whether the step under way has still to pass particle i.
Pending(i) == updates[i] = CurrentStep.updates[i]

\* The pass of the step under way on particle i, with n as the library's
\* value at a point that is not finite.
PassAny(i, n) ==
    /\ ps' = PassOn(ps, i, sim.force_scale, n)
    /\ moved' = PassRecord(i, ps.particles[i],
                            ScaleForce(FieldForce(ps.flow_field, SampledAt(ps, i), n),
                                       sim.force_scale))
    /\ updates' = [updates EXCEPT ![i] = @ + 1]
    /\ stepStart' = CurrentStep
    /\ sim' = IF \A j \in 1..Len(updates) : j # i => ~Pending(j)
              THEN [sim EXCEPT !.step = @ + 1]
              ELSE sim
    /\ UNCHANGED <<rng, gens, justBuilt, pc, cur, built, out, raised, calls, lastOp, log>>
    /\ UNCHANGED <<field, ret, hist, renderer, files>>

\* A ParticleSystem on a canvas of positive size has been constructed.
InitAny ==
    /\ InitPS
    /\ ps.width > 0 /\ ps.height > 0 /\ ps.flow_field.chaos_factor = 50

\* The pass of a step on particle i, whichever particle of those still to be
\* passed i is.
UpdateAny(i) ==
    /\ pc = "simulate"
    /\ ~LoopDone
    /\ i \in 1..Len(ps.particles)
    /\ Pending(i)
    /\ IF Fin(SampledAt(ps, i).x) /\ Fin(SampledAt(ps, i).y)
       THEN PassAny(i, 0) /\ UNCHANGED lib
       ELSE \/ /\ lib \in {"unknown", "returns"}
               /\ lib' = "returns"
               /\ \E n \in NonFiniteNoise : PassAny(i, n)
            \/ /\ lib \in {"unknown", "raises"}
               /\ lib' = "raises"
               /\ raised' = TRUE
               /\ pc' = "idle"
               /\ lastOp' = "simulate"
               /\ stepStart' = NoStep
               /\ UNCHANGED <<rng, gens, justBuilt, cur, ps, built, sim, updates, moved,
                              out, calls, log, field, ret, hist, renderer, files>>

NextAny ==
    \/ \E steps \in 0..MaxSimSteps, f \in ForceScales : SimulateBegin(steps, f)
    \/ \E i \in 1..((MaxBase * 3) \div 2) : UpdateAny(i)
    \/ SimulateReturn

SpecAny == InitAny /\ [][NextAny]_vars

\* ------------------------------------------------------- the rendering layer

\* The language lists: {color, usage_count} of each language, most used first.
LanguageLists ==
    { << >>,
      << [color |-> << Hash, 3, 5, 7, 2, 10, 5 >>, usage_count |-> 10] >>,
      << [color |-> << Hash, 3, 5, 7, 2, 10, 5 >>, usage_count |-> 6],
         [color |-> << Hash, 15, 1, 14, 0, 5, 10 >>, usage_count |-> 2] >>,
      << [color |-> << 15, 15, 15 >>, usage_count |-> 1] >>,
      << [color |-> << Hash, 0, 0, 10, 13, 13, 8 >>, usage_count |-> 0] >>,
      << [color |-> << Hash, 3, 5, 7, 2, 10, 5 >>, usage_count |-> 4],
         [color |-> << Hash, 15, 1, 14, 0, 5, 10 >>, usage_count |-> 3],
         [color |-> << Hash, 0, 0, 10, 13, 13, 8 >>, usage_count |-> 2],
         [color |-> << Hash, 13, 14, 10, 5, 8, 4 >>, usage_count |-> 1] >> }

\* A path of count points from (a, a), in position units.
PathFrom(a, count) == [k \in 1..count |-> Vector2D(a + 10 * k, a + 3 * k * k)]

\* The lists of (path, opacity) pairs handed to render_aura, the opacity in
\* thousandths.
PathLists ==
    { << >>,
      [i \in 1..6 |-> [path |-> PathFrom(100 * i, 3), opacity |-> 300 + 100 * i]],
      << [path |-> PathFrom(0, 4), opacity |-> 1000],
         [path |-> PathFrom(50, 2), opacity |-> 650],
         [path |-> PathFrom(70, 1), opacity |-> 300] >> }

\* num_colors
PaletteSizes == 0..6

\* ColorPaletteGenerator(languages).calculate_base_color()
CalculateBaseColor(languages) ==
    /\ Returned("calculate_base_color", << languages >>, calculate_base_color(languages))
    /\ UNCHANGED <<field, hist>>
    /\ UNCHANGED engine
    /\ UNCHANGED <<renderer, files>>

\* ColorPaletteGenerator(languages).generate_palette(num_colors)
GeneratePalette(languages, num_colors) ==
    /\ Returned("generate_palette", << languages, num_colors >>,
                generate_palette(languages, num_colors))
    /\ UNCHANGED <<field, hist>>
    /\ UNCHANGED engine
    /\ UNCHANGED <<renderer, files>>

\* render_aura(paths_with_opacity, languages, glow_intensity, animate=animate)
RenderAura(paths_with_opacity, languages, animate) ==
    /\ IF render_paths_raises(paths_with_opacity, generate_palette(languages, 5))
       THEN Raised("render_aura", << paths_with_opacity, languages, animate >>)
       ELSE Returned("render_aura", << paths_with_opacity, languages, animate >>,
                     render_aura(paths_with_opacity, languages, animate))
    /\ UNCHANGED <<field, hist>>
    /\ UNCHANGED engine
    /\ UNCHANGED <<renderer, files>>

NextRender ==
    \/ \E l \in LanguageLists : CalculateBaseColor(l)
    \/ \E l \in LanguageLists, n \in PaletteSizes : GeneratePalette(l, n)
    \/ \E q \in PathLists, l \in LanguageLists, a \in BOOLEAN : RenderAura(q, l, a)

SpecRender == Init /\ [][NextRender]_vars

\* ------------------------------------------------- an SVGRenderer used directly

\* The renderers: (width, height, background_color).
Renderers ==
    { SVGRenderer(800, 800, << Hash, 0, 13, 1, 1, 1, 7 >>),
      SVGRenderer(20, 20, << Hash, 0, 0, 0, 0, 0, 0 >>) }

\* filename arguments; "" stands for None.
Filenames == {"aura.svg", "out.svg"}

\* palette arguments.
Palettes == { << >>, generate_palette(<< >>, 5) }

\* SVGRenderer(width, height, background_color) has been constructed.
InitSVG ==
    /\ renderer \in Renderers
    /\ files = {}
    /\ field = NoFlowField
    /\ ret = NoReturn
    /\ hist = << >>
    /\ stepStart = NoStep
    /\ rng \in {SeedRng(s) : s \in InitRngSeeds}
    /\ lib = "unknown"
    /\ gens = << >>
    /\ justBuilt = 0
    /\ pc = "idle"
    /\ cur = NoCall
    /\ ps = NoSystem
    /\ built = NoBuild
    /\ sim = NoSim
    /\ updates = << >>
    /\ moved = NoMove
    /\ out = << >>
    /\ raised = FALSE
    /\ calls = 0
    /\ lastOp = "construct"
    /\ log = << >>

\* The direct call op(args) raised the given error.
Failed(op, args, error) ==
    /\ ret' = [op |-> op, args |-> args, raised |-> TRUE, value |-> error]
    /\ raised' = TRUE
    /\ lastOp' = op

\* The drawing has room for n more elements or defs.
Room(n) ==
    NotInitialized(renderer)
        \/ Len(renderer.dwg.elements) + Len(renderer.dwg.defs) + n <= MaxElems

\* A drawing operation that, past its test, leaves the renderer as `after`.
DrawingOp(op, args, after) ==
    /\ IF NotInitialized(renderer)
       THEN Failed(op, args, NotInitializedError) /\ UNCHANGED renderer
       ELSE Returned(op, args, 0) /\ renderer' = after
    /\ UNCHANGED files
    /\ UNCHANGED <<engine, field, hist>>

\* renderer.create_drawing(filename)
CreateDrawing(filename) ==
    /\ Returned("create_drawing", << filename >>, 0)
    /\ renderer' = create_drawing(renderer, filename)
    /\ UNCHANGED files
    /\ UNCHANGED <<engine, field, hist>>

\* renderer.add_glow_filter(filter_id, intensity, color)
AddGlowFilter(filter_id, color) ==
    /\ Room(1)
    /\ DrawingOp("add_glow_filter", << filter_id, color >>,
                 add_glow_filter(renderer, filter_id, color))

\* renderer.add_gradient(gradient_id, colors, gradient_type)
AddGradient(gradient_id, colors, gradient_type) ==
    /\ Room(1)
    /\ DrawingOp("add_gradient", << gradient_id, colors, gradient_type >>,
                 add_gradient(renderer, gradient_id, colors, gradient_type))

\* renderer.render_paths(paths_with_opacity, palette): past the test and the
\* glow filter, the loop raises ZeroDivisionError on an empty palette.
RenderPaths(paths_with_opacity, palette) ==
    /\ Room(2)
    /\ IF ~NotInitialized(renderer) /\ render_paths_raises(paths_with_opacity, palette)
       THEN /\ Failed("render_paths", << paths_with_opacity, palette >>,
                      "ZeroDivisionError")
            /\ renderer' = render_paths_filter(renderer, paths_with_opacity, palette)
            /\ UNCHANGED files
            /\ UNCHANGED <<engine, field, hist>>
       ELSE DrawingOp("render_paths", << paths_with_opacity, palette >>,
                      render_paths_group(renderer, paths_with_opacity, palette))

\* renderer.add_center_glow(color, intensity)
AddCenterGlow(color) ==
    /\ Room(2)
    /\ DrawingOp("add_center_glow", << color >>, add_center_glow(renderer, color))

\* renderer.add_animation()
AddAnimation ==
    /\ Room(1)
    /\ DrawingOp("add_animation", << >>, add_animation(renderer))

\* renderer.save(filename): the drawing is written under its filename.
Save(filename) ==
    /\ IF NotInitialized(renderer)
       THEN Failed("save", << filename >>, NotInitializedError)
            /\ UNCHANGED <<renderer, files>>
       ELSE /\ Returned("save", << filename >>, save(renderer, filename).dwg.filename)
            /\ renderer' = save(renderer, filename)
            /\ files' = files \cup {save(renderer, filename).dwg.filename}
    /\ UNCHANGED <<engine, field, hist>>

NextSVG ==
    \/ \E f \in Filenames : CreateDrawing(f)
    \/ \E c \in {palette[1] : palette \in Palettes \ {<< >>}} : AddGlowFilter("glow", c)
    \/ \E palette \in Palettes, t \in {"radial", "linear"} : AddGradient("fade", palette, t)
    \/ \E q \in PathLists, palette \in Palettes : RenderPaths(q, palette)
    \/ \E l \in LanguageLists : AddCenterGlow(calculate_base_color(l))
    \/ AddAnimation
    \/ \E f \in Filenames \cup {""} : Save(f)

SpecSVG == InitSVG /\ [][NextSVG]_vars

\* -------------------------------------------------------------------- claims

\* Two ended generate calls were given the same generator and call arguments.
SameRun(e, f) ==
    /\ e.width = f.width /\ e.height = f.height /\ e.seed = f.seed
    /\ e.density = f.density /\ e.chaos_factor = f.chaos_factor /\ e.steps = f.steps

\* |velocity|^2 of a particle.
Speed2(p) == FAdd(FMul(p.velocity.x, p.velocity.x, 1), FMul(p.velocity.y, p.velocity.y, 1))

InUnitRange(v) == 0 <= v /\ v <= 100

\* C1: two independent runs (AuraGenerator(width, height, seed) constructed,
\* then generate called on it at once) with the same width, height, seed,
\* density, chaos_factor and steps end the same way and return identical path
\* lists, whatever ran before them.
C1_Determinism ==
    \A i, j \in 1..Len(log) :
        (log[i].fresh /\ log[j].fresh /\ SameRun(log[i], log[j]))
            => (log[i].out = log[j].out /\ log[i].raised = log[j].raised)

\* Two independent runs with the same inputs on a 20 x 20 canvas have both
\* returned the same, non-empty, path list.
C1_Witness ==
    \E i, j \in 1..Len(log) :
        /\ i < j /\ log[i].fresh /\ log[j].fresh /\ SameRun(log[i], log[j])
        /\ log[i].width > 0 /\ Len(log[i].out) > 0 /\ log[i].out = log[j].out

\* An ended generate call the spec allows: positive dimensions, density and
\* chaos_factor in [0, 1].
ValidRun(e) ==
    /\ e.width > 0 /\ e.height > 0
    /\ InUnitRange(e.density) /\ InUnitRange(e.chaos_factor)

\* C2: two generate calls with identical arguments on the same AuraGenerator
\* instance return identical path lists (stated here for the calls the spec
\* allows, where no other defect of the code is involved).
C2_RepeatOnInstance ==
    \A i, j \in 1..Len(log) :
        (log[i].gen = log[j].gen /\ SameRun(log[i], log[j]) /\ ValidRun(log[i]))
            => log[i].out = log[j].out

\* C3: with width <= 0 or height <= 0 the engine fails before any simulation
\* work: generate never gets as far as building its particle system, and no
\* generate call on such a generator ends having run.
C3_DimensionsChecked ==
    /\ pc = "generate" => (gens[cur.gen].width > 0 /\ gens[cur.gen].height > 0)
    /\ \A i \in 1..Len(log) : log[i].width > 0 /\ log[i].height > 0

\* C4: with density or chaos_factor outside [0, 1] generate fails before the
\* simulation starts: it never builds its particle system from such a value
\* and never ends having run with it.
C4_ArgumentsChecked ==
    /\ pc = "generate" => (InUnitRange(cur.density) /\ InUnitRange(cur.chaos_factor))
    /\ \A i \in 1..Len(log) : InUnitRange(log[i].density) /\ InUnitRange(log[i].chaos_factor)

\* C5: a ParticleSystem whose particle count is zero has no particles,
\* simulate makes no pass of its loop and raises nothing for any number of
\* steps, and the extracted path list is empty.
C5_ZeroParticles ==
    ps.num_particles = 0 =>
        /\ Len(ps.particles) = 0
        /\ ~raised
        /\ moved = NoMove
        /\ pc = "simulate" => LoopDone
        /\ out = << >>

\* A system of zero particles was simulated for a positive number of steps
\* and its paths were then extracted.
C5_Witness ==
    /\ ps.num_particles = 0 /\ built.num_particles > 0
    /\ calls > 0 /\ sim.steps > 0 /\ lastOp = "get_paths" /\ pc = "idle"

\* C6: in every state reached during simulate, every particle's velocity
\* magnitude is at most max_speed = 3.0.
C6_BoundedVelocity ==
    \A i \in 1..Len(ps.particles) :
        FLe(Speed2(ps.particles[i]), (SimMaxSpeed * Unit) * (SimMaxSpeed * Unit))

\* C7: every pass of simulate's loop on a particle appends exactly one entry
\* to its path, the position it had before the pass, and nothing else changes
\* a path; so a path has exactly as many entries as passes were made on its
\* particle, and the current position is not yet recorded in it.
C7_PathGrowth ==
    /\ [](\A i \in 1..Len(ps.particles) : Len(ps.particles[i].path) = updates[i])
    /\ [][\A i \in 1..Len(ps.particles) :
            IF updates'[i] = updates[i]
            THEN ps'.particles[i].path = ps.particles[i].path
            ELSE /\ updates'[i] = updates[i] + 1
                 /\ ps'.particles[i].path =
                        Append(ps.particles[i].path, ps.particles[i].position)]_vars

\* Over two simulate calls more passes than one call allows were made on a
\* particle, the last of them one in which the particle was edge-wrapped.
C7_Witness ==
    /\ calls = 2 /\ moved.k # 0
    /\ updates[moved.k] > MaxSimSteps
    /\ Len(ps.particles[moved.k].path) = updates[moved.k]
    /\ ps.particles[moved.k].position # moved.p.position

\* The particle of the last pass left the position update with x > width + 10.
LeftHighX == moved.k # 0 /\ FGt(moved.p.position.x, (ps.width + Margin) * Unit)

\* y of the last pass is within [-10, height + 10] after the position update.
YWithin ==
    /\ FLe(-(Margin * Unit), moved.p.position.y)
    /\ FLe(moved.p.position.y, (ps.height + Margin) * Unit)

\* C8 as stated: a particle whose x exceeds width + 10 after the position
\* update is relocated to x = -10 in that pass, and the pass's wrap handling
\* leaves y, velocity and opacity unchanged, whatever y is.
C8_XWrapKeepsY ==
    LeftHighX =>
        /\ ps.particles[moved.k].position = Vector2D(-(Margin * Unit), moved.p.position.y)
        /\ ps.particles[moved.k].velocity = moved.p.velocity
        /\ ps.particles[moved.k].opacity = moved.p.opacity

\* C8 as amended: the particle is relocated to x = -10 with velocity and
\* opacity unchanged, and y unchanged unless y is itself more than 10 units
\* outside the canvas, in which case y is wrapped in the same pass (to
\* height + 10 from below -10, to -10 from above height + 10).
C8_XWrapAmended ==
    LeftHighX =>
        /\ ps.particles[moved.k].position.x = -(Margin * Unit)
        /\ ps.particles[moved.k].position.y =
              (IF FLt(moved.p.position.y, -(Margin * Unit)) THEN (ps.height + Margin) * Unit
               ELSE IF FGt(moved.p.position.y, (ps.height + Margin) * Unit) THEN -(Margin * Unit)
               ELSE moved.p.position.y)
        /\ ps.particles[moved.k].velocity = moved.p.velocity
        /\ ps.particles[moved.k].opacity = moved.p.opacity

\* On a canvas of positive size a moving particle left past the high x edge
\* with y within the margins and was relocated to x = -10.
C8_Witness ==
    /\ LeftHighX /\ YWithin /\ ps.width > 0 /\ Fin(moved.p.position.x)
    /\ moved.p.velocity # Vector2D(0, 0)
    /\ ps.particles[moved.k].position = Vector2D(-(Margin * Unit), moved.p.position.y)

\* C9: the particle collection has exactly floor(base_count x
\* density_multiplier) particles from construction on; simulate and path
\* extraction never add or remove one.
C9_CountConstant ==
    /\ Len(ps.particles) = (built.num_particles * built.particle_density) \div Milli
    /\ ps.num_particles = Len(ps.particles)
    /\ Len(updates) = Len(ps.particles)

\* A system whose count floor() rounded down (1 x 1.5 particles) was
\* simulated, with passes made on it, and its paths were extracted.
C9_Witness ==
    /\ (built.num_particles * built.particle_density) % Milli # 0
    /\ Len(ps.particles) > 0 /\ updates[1] > 0
    /\ calls = MaxCalls /\ lastOp = "get_paths"

\* C10: the number of particles generate creates at density 0.0 is at most
\* the number it creates at density 1.0, and both are in [40, 360].
C10_CountScaling ==
    /\ \A i \in 1..Len(log) :
          log[i].density \in {0, 100} => (40 <= log[i].count /\ log[i].count <= 360)
    /\ \A i, j \in 1..Len(log) :
          (log[i].density = 0 /\ log[j].density = 100) => log[i].count <= log[j].count

\* A generate call at density 0.0 and one at density 1.0 have ended, with 40
\* and 360 particles.
C10_Witness ==
    \E i, j \in 1..Len(log) :
        /\ log[i].density = 0 /\ log[i].count = 40
        /\ log[j].density = 100 /\ log[j].count = 360

\* The generate call of the spec's worked example: an 800 x 800 canvas, seed
\* 42, density 0.5, chaos_factor 0.2 and 150 steps.
ExampleRun(width, height, seed, density, chaos_factor, steps) ==
    /\ width = 800 /\ height = 800 /\ seed = 42
    /\ density = 50 /\ chaos_factor = 20 /\ steps = 150

\* C11: for width = 800, height = 800, seed = 42, density = 0.5,
\* chaos_factor = 0.2 and steps = 150, generate uses a base particle count of
\* 175, a density multiplier of 1.0 (175 particles), noise_scale 0.008 and
\* force_scale 0.38, and returns at most 175 paths of at most 150 points each.
C11_ExampleRun ==
    /\ (/\ pc = "generate"
        /\ ExampleRun(gens[cur.gen].width, gens[cur.gen].height, gens[cur.gen].seed,
                      cur.density, cur.chaos_factor, cur.steps))
        => /\ built.num_particles = 175
           /\ built.particle_density = Milli
           /\ ps.num_particles = 175 /\ Len(ps.particles) = 175
           /\ ps.flow_field.noise_scale = 800
           /\ sim.force_scale = 380
    /\ \A i \in 1..Len(log) :
          LET e == log[i]
          IN  ExampleRun(e.width, e.height, e.seed, e.density, e.chaos_factor, e.steps)
                  => /\ ~e.raised
                     /\ e.count = 175
                     /\ Len(e.out) <= 175
                     /\ \A k \in 1..Len(e.out) : Len(e.out[k].path) <= 150

\* The example call has returned: 175 paths, the first of 150 points.
C11_Witness ==
    \E i \in 1..Len(log) :
        /\ ExampleRun(log[i].width, log[i].height, log[i].seed,
                      log[i].density, log[i].chaos_factor, log[i].steps)
        /\ Len(log[i].out) = 175
        /\ Len(log[i].out[1].path) = 150

\* Python's round of a / q for a >= 0 and q > 0: to the nearest integer, a
\* tie to the even one.
Round(a, q) ==
    LET f == a \div q
        r == a % q
    IN  IF 2 * r > q THEN f + 1
        ELSE IF 2 * r < q THEN f
        ELSE IF f % 2 = 0 THEN f ELSE f + 1

\* C17: the base particle count generate computes is round(50 + density x
\* 250), the nearest integer and not the truncation, for every density in
\* [0, 1]; it is 50 at density 0 and 300 at density 1.
C17_BaseRounded ==
    (pc = "generate" /\ InUnitRange(cur.density)) =>
        /\ built.num_particles = Round(50 * 100 + cur.density * 250, 100)
        /\ cur.density = 0 => built.num_particles = 50
        /\ cur.density = 100 => built.num_particles = 300

\* C12: every single-layer sample being in [-1, 1], fractal_noise(x, y,
\* octaves, persistence, scale) returns a value in [-1, 1] whatever the
\* octave count.
C12_FractalRange ==
    ret.op = "fractal_noise" =>
        /\ ~ret.raised
        /\ -Milli <= ret.value /\ ret.value <= Milli

\* C13: noise2d, noise3d and fractal_noise return a value and never raise,
\* for any numeric inputs, scale = 0, octaves = 0 and any persistence
\* included.
C13_NoiseNeverRaises ==
    ret.op \in {"noise2d", "noise3d", "fractal_noise"} =>
        /\ ~ret.raised
        /\ Fin(ret.value)

InWrapBox(h) ==
    /\ -Margin <= h.x /\ h.x <= field.width + Margin
    /\ -Margin <= h.y /\ h.y <= field.height + Margin

\* The point of a get_force call is inside the canvas.
InCanvas(h) ==
    /\ 0 <= h.x /\ h.x <= field.width
    /\ 0 <= h.y /\ h.y <= field.height

\* radial_factor at the point of a get_force call.
RadialAt(h) == radial_factor(field, h.x * Unit, h.y * Unit)

\* C20: at every point simulate can sample, -10 <= x <= width + 10 and
\* -10 <= y <= height + 10, the radial_factor get_force uses is in
\* [0.5, 1.0].
C20_RadialRange ==
    \A i \in 1..Len(hist) :
        InWrapBox(hist[i]) => (500 <= RadialAt(hist[i]) /\ RadialAt(hist[i]) <= Milli)

\* C20, amended: on a canvas of positive width and height the radial_factor
\* is in [0.5, 1.0] at every point inside the canvas, 0 <= x <= width and
\* 0 <= y <= height; at the other points simulate can sample, up to 10 units
\* outside the canvas, it is at most 1.0 (and can be below 0.5).
C20_RadialAmended ==
    \A i \in 1..Len(hist) :
        /\ InCanvas(hist[i]) => (500 <= RadialAt(hist[i]) /\ RadialAt(hist[i]) <= Milli)
        /\ InWrapBox(hist[i]) => RadialAt(hist[i]) <= Milli

\* get_force was called at the canvas's centre, where the factor is 1.0, at
\* its corner, where it is 0.5, and at a point of the margin, where it is
\* below 0.5.
C20_Witness ==
    \E i, j, k \in 1..Len(hist) :
        /\ InCanvas(hist[i]) /\ RadialAt(hist[i]) = Milli
        /\ InCanvas(hist[j]) /\ RadialAt(hist[j]) = 500
        /\ InWrapBox(hist[k]) /\ ~InCanvas(hist[k]) /\ RadialAt(hist[k]) < 500

\* The particles whose recorded path has more than 2 points.
Kept == { i \in 1..Len(ps.particles) : Len(ps.particles[i].path) > 2 }

\* The place of kept particle i among the kept particles, in creation order.
Rank(i) == Cardinality({ j \in Kept : j <= i })

\* C14: get_paths_with_opacity emits exactly one (path, opacity) pair for
\* each particle whose recorded path has more than 2 points and none for the
\* others; the pairs are in particle creation order, each path is that
\* particle's recorded positions in recording order, and each opacity is
\* that particle's opacity.
C14_PathsEmitted ==
    (lastOp = "get_paths" /\ pc = "idle") =>
        /\ Len(out) = Cardinality(Kept)
        /\ \A i \in Kept :
              /\ out[Rank(i)].path = ps.particles[i].path
              /\ out[Rank(i)].opacity = ps.particles[i].opacity

\* The paths of a system of several particles, each of more than 2 points,
\* were extracted, and the first two pairs differ.
C14_Witness ==
    /\ lastOp = "get_paths" /\ pc = "idle"
    /\ Cardinality(Kept) >= 2
    /\ Len(out) >= 2
    /\ out[1].path # out[2].path
    /\ out[1].opacity # out[2].opacity

\* C15: for every integer seed given to AuraGenerator, the noise generator
\* and the random source of the initial jitter are both seeded from the seed
\* reduced modulo 2^31, a value in [0, 2^31), and neither from the seed as
\* given.
C15_SeedsReduced ==
    (pc = "generate" /\ cur.fresh) =>
        /\ rng.seed = Mod2p31(gens[cur.gen].seed)
        /\ ps.flow_field.seed = Mod2p31(gens[cur.gen].seed)
        /\ ps.flow_field.seed >= 0

\* The particles as the passes of the step under way leave them when they
\* are made in the order of the list.
InListOrder ==
    simulate_step([ps EXCEPT !.particles = stepStart.particles],
                  stepStart.force_scale, 0).particles

\* C18: within one step of simulate the order of the per-particle updates is
\* immaterial: whichever particles a step has passed, in whatever order, each
\* of them (position, velocity, path, opacity) is as the passes in list order
\* leave it, and every other particle is as the step found it.
C18_OrderImmaterial ==
    (Len(stepStart.updates) = Len(updates) /\ Len(updates) > 0) =>
        \A i \in 1..Len(updates) :
            IF updates[i] > stepStart.updates[i]
            THEN ps.particles[i] = InListOrder[i]
            ELSE ps.particles[i] = stepStart.particles[i]

\* A step of a system of three particles has passed the third and the first
\* of them and not yet the second, and the particles have moved.
C18_Witness ==
    /\ Len(stepStart.updates) = 3 /\ Len(updates) = 3
    /\ updates[3] > stepStart.updates[3]
    /\ updates[1] > stepStart.updates[1]
    /\ updates[2] = stepStart.updates[2]
    /\ moved.k = 1
    /\ ps.particles[1].position # stepStart.particles[1].position
    /\ ps.particles[3].position # stepStart.particles[3].position

\* The first default colour, #58a6ff.
FirstDefault == ColorRGB(88 * Milli, 166 * Milli, 255 * Milli)

\* The pairs of a list that have a path of at least 2 points.
Drawable(paths_with_opacity) ==
    { i \in 1..Len(paths_with_opacity) : Len(paths_with_opacity[i].path) >= 2 }

BaseAngleAt(h) ==
    fractal_noise(field.seed, h.x * Unit, h.y * Unit, 3, 600, field.noise_scale)

\* The secondary noise of a get_force call: sampled at (2x, 2y) with scale
\* noise_scale x 3.
SecondaryAt(h) ==
    noise2d(field.seed, h.x * Unit * 2, h.y * Unit * 2, field.noise_scale * 3)

\* The force of the given angle at the point of a get_force call.
ForceOfAngle(h, angle) ==
    Vector2D(FMul(Cos(angle), RadialAt(h), Milli), FMul(Sin(angle), RadialAt(h), Milli))

\* C21: get_force adds the turbulence term, secondary x chaos_factor x pi,
\* to the base angle when chaos_factor > 0.3 and only then: at
\* chaos_factor <= 0.3, 0.3 included, the angle is n x 2pi alone and the
\* force is the one a field of chaos_factor 0 returns.
C21_TurbulenceGate ==
    \A i \in 1..Len(hist) :
        LET h == hist[i]
        IN  IF field.chaos_factor > 30
            THEN h.force = ForceOfAngle(h, BaseAngleAt(h)
                              + TruncDiv(SecondaryAt(h) * field.chaos_factor, 200))
            ELSE /\ h.force = ForceOfAngle(h, BaseAngleAt(h))
                 /\ h.force = get_force([field EXCEPT !.chaos_factor = 0],
                                        h.x * Unit, h.y * Unit)

\* get_force was called on a field of chaos_factor exactly 0.3 at a point
\* where the turbulence term would have turned the force, and returned the
\* force of the base angle.
C21_Witness ==
    \E i \in 1..Len(hist) :
        /\ field.chaos_factor = 30
        /\ SecondaryAt(hist[i]) # 0
        /\ hist[i].force = ForceOfAngle(hist[i], BaseAngleAt(hist[i]))
        /\ hist[i].force # ForceOfAngle(hist[i], BaseAngleAt(hist[i])
                                + TruncDiv(SecondaryAt(hist[i]) * 30, 200))

\* velocity + acceleration of the last pass.
Candidate == Vector2D(FAdd(moved.from.velocity.x, moved.acceleration.x),
                      FAdd(moved.from.velocity.y, moved.acceleration.y))

\* The candidate velocity is longer than max_speed.
TooFast ==
    FGt(FAdd(FMul(Candidate.x, Candidate.x, 1), FMul(Candidate.y, Candidate.y, 1)),
        (SimMaxSpeed * Unit) * (SimMaxSpeed * Unit))

\* v has magnitude max_speed, to the rounding of its two coordinates, and
\* the direction of the candidate velocity.
RescaledCandidate(v) ==
    /\ Fin(v.x) /\ Fin(v.y)
    /\ Speed2(moved.p) <= (SimMaxSpeed * Unit) * (SimMaxSpeed * Unit)
    /\ Speed2(moved.p) >= (SimMaxSpeed * Unit - 2) * (SimMaxSpeed * Unit - 2)
    /\ Sgn(v.x) \in {0, Sgn(Candidate.x)}
    /\ Sgn(v.y) \in {0, Sgn(Candidate.y)}
    /\ Fin(Candidate.x) /\ Fin(Candidate.y)
            => Abs(v.x * Candidate.y - v.y * Candidate.x)
                  <= 2 * (Abs(Candidate.x) + Abs(Candidate.y))

\* C22: update sets the velocity to velocity + acceleration, rescaled to
\* magnitude max_speed with its direction kept when it is longer than
\* max_speed and as it is otherwise, and then the position to the old
\* position plus that new velocity.
C22_Update ==
    moved.k # 0 =>
        /\ IF TooFast THEN RescaledCandidate(moved.p.velocity)
                      ELSE moved.p.velocity = Candidate
        /\ moved.p.position =
              Vector2D(FAdd(moved.from.position.x, moved.p.velocity.x),
                       FAdd(moved.from.position.y, moved.p.velocity.y))

\* The last pass left the particle, after update, below -10 on the axis.
LeftLowX == moved.k # 0 /\ FLt(moved.p.position.x, -(Margin * Unit))

LeftLowY == moved.k # 0 /\ FLt(moved.p.position.y, -(Margin * Unit))

LeftHighY == moved.k # 0 /\ FGt(moved.p.position.y, (ps.height + Margin) * Unit)

\* The last pass's wrap sent the coordinates that left past the high edge to
\* -10 and those that left past the low edge to lowX and lowY, left the
\* coordinate of an axis the particle has not left as it was, and kept
\* velocity and path.
WrappedTo(lowX, lowY) ==
    LET before == moved.p
        after == ps.particles[moved.k]
    IN  /\ LeftHighX => after.position.x = -(Margin * Unit)
        /\ LeftLowX => after.position.x = lowX
        /\ ~LeftHighX /\ ~LeftLowX => after.position.x = before.position.x
        /\ LeftHighY => after.position.y = -(Margin * Unit)
        /\ LeftLowY => after.position.y = lowY
        /\ ~LeftHighY /\ ~LeftLowY => after.position.y = before.position.y
        /\ after.velocity = before.velocity
        /\ after.path = before.path

\* C23: a coordinate more than 10 units outside the canvas is sent to -10
\* when it left past the high edge and to width - 10 or height - 10 when it
\* left past the low edge; only that axis's coordinate changes, and velocity
\* and path are kept.
C23_WrapInside ==
    moved.k # 0 => WrappedTo((ps.width - Margin) * Unit, (ps.height - Margin) * Unit)

\* C23, amended: a coordinate that left past the low edge is sent to
\* width + 10 or height + 10.
C23_WrapAmended ==
    moved.k # 0 => WrappedTo((ps.width + Margin) * Unit, (ps.height + Margin) * Unit)

\* On a canvas of positive size a particle left past the low edge of y with
\* its x within the margin, and the pass put it at y = height + 10 with x,
\* velocity and path as update left them.
C23_Witness ==
    /\ LeftLowY /\ ~LeftLowX /\ ~LeftHighX
    /\ ps.width > 0 /\ ps.height > 0
    /\ ps.particles[moved.k].position =
          Vector2D(moved.p.position.x, (ps.height + Margin) * Unit)
    /\ ps.particles[moved.k].velocity = moved.p.velocity
    /\ moved.p.velocity # Vector2D(0, 0)
    /\ ps.particles[moved.k].path = moved.p.path

\* 0.3 + 0.7 x (1 - r / r_max), in thousandths, for the nominal radius
\* r = sqrt(i / n) x min(width, height) x 0.35 of the particle of index i of
\* n and r_max = min(width, height) x 0.35.
NominalOpacity(i, n, width, height) ==
    LET r == (SqrtRatio(i, n) * Min(width, height) * 35 * Unit) \div (100 * Milli)
        r_max == (Min(width, height) * 35 * Unit) \div 100
    IN  300 + (700 * (Milli - (r * Milli) \div r_max)) \div Milli

\* The opacities, in creation order, are those of the nominal radii, within
\* [0.3, 1.0], non-increasing, and 1.0 for the first.
OpacitiesAsCreated(opacities, width, height) ==
    \A k \in 1..Len(opacities) :
        /\ opacities[k] = NominalOpacity(k - 1, Len(opacities), width, height)
        /\ 300 <= opacities[k] /\ opacities[k] <= Milli
        /\ k > 1 => opacities[k] <= opacities[k - 1]
        /\ k = 1 => opacities[k] = Milli

\* C24: on a canvas of positive width and height, every particle's opacity
\* is 0.3 + 0.7 x (1 - r / r_max) for its nominal radius r, is in
\* [0.3, 1.0], does not increase with the creation index, is 1.0 for the
\* first particle, and is the same after every pass of simulate and in the
\* pairs generate returns.
C24_Opacity ==
    /\ (pc = "generate" /\ ps.width > 0 /\ ps.height > 0)
          => OpacitiesAsCreated([k \in 1..Len(ps.particles) |-> ps.particles[k].opacity],
                                ps.width, ps.height)
    /\ \A i \in 1..Len(log) :
          (log[i].width > 0 /\ log[i].height > 0 /\ Len(log[i].out) = log[i].count)
             => OpacitiesAsCreated([k \in 1..Len(log[i].out) |-> log[i].out[k].opacity],
                                   log[i].width, log[i].height)

\* generate on a 20 x 20 canvas returned the paths of all its particles,
\* each passed three times, the first with opacity 1.0 and the last with a
\* lower one.
C24_Witness ==
    \E i \in 1..Len(log) :
        /\ log[i].width > 0 /\ log[i].height > 0
        /\ log[i].steps = MaxSteps
        /\ Len(log[i].out) = log[i].count /\ log[i].count > 1
        /\ log[i].out[1].opacity = Milli
        /\ log[i].out[log[i].count].opacity < 400

\* -10 <= x <= width + 10 and -10 <= y <= height + 10, on ps's canvas.
InBand(pos) ==
    /\ Fin(pos.x) /\ -(Margin * Unit) <= pos.x /\ pos.x <= (ps.width + Margin) * Unit
    /\ Fin(pos.y) /\ -(Margin * Unit) <= pos.y /\ pos.y <= (ps.height + Margin) * Unit

\* The boundary check of lines 335-355 moves the position.
WrapsAgain(pos) == WrapY(WrapX(pos, ps.width), ps.height) # pos

\* C25: on a canvas of positive width and height, after construction and
\* after every pass of simulate (update, then wrap), every particle's
\* position has -10 <= x <= width + 10 and -10 <= y <= height + 10, so has
\* every point of every path, recorded or returned, and the boundary check
\* applied again to a position leaves it where it is.
C25_PositionsInBand ==
    (ps.width > 0 /\ ps.height > 0) =>
        /\ \A k \in 1..Len(ps.particles) :
              /\ InBand(ps.particles[k].position)
              /\ ~WrapsAgain(ps.particles[k].position)
              /\ \A j \in 1..Len(ps.particles[k].path) : InBand(ps.particles[k].path[j])
        /\ \A k \in 1..Len(out) : \A j \in 1..Len(out[k].path) : InBand(out[k].path[j])

\* On a canvas of positive size a pass has wrapped a particle, a later pass
\* has moved it on, and the path returned for it holds the position the
\* wrap produced.
C25_Witness ==
    /\ ps.width > 0 /\ ps.height > 0
    /\ \E k \in 1..Len(out) : \E j \in 1..Len(out[k].path) :
          \/ out[k].path[j].x \in {-(Margin * Unit), (ps.width + Margin) * Unit}
          \/ out[k].path[j].y \in {-(Margin * Unit), (ps.height + Margin) * Unit}

\* C26: between the steps of simulate all particles have paths of the same
\* length, the number of steps made so far; so generate returns, an empty
\* list when steps <= 2, and otherwise one pair for each particle, each
\* path of exactly `steps` points.
C26_PathLengths ==
    /\ (pc = "generate" /\ sim.idx = 1)
          => \A k \in 1..Len(ps.particles) : Len(ps.particles[k].path) = sim.step
    /\ \A i \in 1..Len(log) :
          /\ ~log[i].raised
          /\ IF log[i].steps <= 2
             THEN log[i].out = << >>
             ELSE /\ Len(log[i].out) = log[i].count
                  /\ \A j \in 1..Len(log[i].out) : Len(log[i].out[j].path) = log[i].steps

\* The ended generate call i is the first made on its instance.
FirstOn(i) == \A j \in 1..(i - 1) : log[j].gen # log[i].gen

\* C27: what g.generate returns depends only on g's width, height and seed
\* and on the arguments, whatever was constructed or run on other instances
\* between g's construction and the call: the first generate calls on two
\* instances of the same width, height and seed, given the same arguments,
\* return identical path lists (stated for the calls the spec allows).
C27_OwnInputsOnly ==
    \A i, j \in 1..Len(log) :
        (FirstOn(i) /\ FirstOn(j) /\ SameRun(log[i], log[j]) /\ ValidRun(log[i]))
            => log[i].out = log[j].out

\* The drawing operations of SVGRenderer.
DrawingOps ==
    {"add_glow_filter", "add_gradient", "render_paths", "add_center_glow",
     "add_animation", "save"}

\* C28: a drawing operation called on a renderer whose create_drawing was
\* never called raises the ValueError and leaves the renderer and the files
\* as they were; once create_drawing was called the renderer keeps a
\* drawing, and no drawing operation raises that error.
C28_NotInitialized ==
    [][/\ ret'.op \in DrawingOps =>
            IF renderer.dwg = NoDrawing
            THEN /\ ret'.raised
                 /\ ret'.value = NotInitializedError
                 /\ renderer' = renderer
                 /\ files' = files
            ELSE ~(ret'.raised /\ ret'.value = NotInitializedError)
       /\ (renderer.dwg # NoDrawing \/ ret'.op = "create_drawing")
            => renderer'.dwg # NoDrawing]_vars

\* save was called on a renderer without a drawing: it raised the
\* ValueError, and there is still no drawing and no file.
C28_Witness ==
    /\ ret.op = "save" /\ ret.raised
    /\ ret.value = NotInitializedError
    /\ renderer \in Renderers
    /\ files = {}
====
